---------------------------- MODULE Spec2Model ----------------------------
(***************************************************************************)
(* Model of the Sarvam speech-to-text gateway (sarvam-service/main.py):    *)
(* the response normalizer (extract_transcript / extract_language), the    *)
(* POST /transcribe handler with its scoped upstream session, and the GET  *)
(* /health handler reading the module-level credential.                    *)
(*                                                                         *)
(* Text (Python str) is modelled as a sequence of tokens, so that          *)
(* concatenation and "contains" are computed rather than assumed.          *)
(***************************************************************************)
EXTENDS Integers, Sequences, FiniteSets, TLC

\* Number of distinct string values a provider field may carry.
NumStrings == 2

AllTexts ==
    << <<"hello", "world">>, <<"en-IN">>, <<"namaste">>, <<"hi-IN">>, <<"ok">> >>

(***************************************************************************)
(* Python values that may sit in a response field.                         *)
(***************************************************************************)
PyStr(s) == [type |-> "str", s |-> s]

PyNone == [type |-> "NoneType", s |-> <<"None">>]

PyInt == [type |-> "int", s |-> <<"7">>]

IsStr(v) == v.type = "str"

StrValues ==
    {PyStr(AllTexts[i]) : i \in 1..(IF NumStrings < Len(AllTexts) THEN NumStrings ELSE Len(AllTexts))}

FieldValues == StrValues \cup {PyNone, PyInt}

(***************************************************************************)
(* RawProviderResponse.  kind "obj" is an attribute-bearing object, "map"  *)
(* a dict, anything else ("other") exposes neither attributes nor keys.    *)
(* has* says whether the attribute / key exists; when it does not, the     *)
(* value slot holds PyNone and is never read.                              *)
(***************************************************************************)
MkInner(k, ht, t, hl, l) == [kind |-> k, hasT |-> ht, t |-> t, hasL |-> hl, l |-> l]

NoInner == MkInner("other", FALSE, PyNone, FALSE, PyNone)

MkResp(k, hd, d, ht, t, hl, l) ==
    [kind |-> k, hasData |-> hd, data |-> d, hasT |-> ht, t |-> t, hasL |-> hl, l |-> l]

OpaqueResp == MkResp("other", FALSE, NoInner, FALSE, PyNone, FALSE, PyNone)

Inners ==
    {NoInner} \cup
    {MkInner(k, TRUE, t, TRUE, l) : k \in {"obj", "map"}, t \in FieldValues, l \in FieldValues} \cup
    {MkInner(k, TRUE, t, FALSE, PyNone) : k \in {"obj", "map"}, t \in FieldValues} \cup
    {MkInner(k, FALSE, PyNone, TRUE, l) : k \in {"obj", "map"}, l \in FieldValues} \cup
    {MkInner(k, FALSE, PyNone, FALSE, PyNone) : k \in {"obj", "map"}}

TopFields ==
    {<<TRUE, t, TRUE, l>> : t \in FieldValues, l \in FieldValues} \cup
    {<<TRUE, t, FALSE, PyNone>> : t \in FieldValues} \cup
    {<<FALSE, PyNone, TRUE, l>> : l \in FieldValues} \cup
    {<<FALSE, PyNone, FALSE, PyNone>>}

Responses ==
    {OpaqueResp} \cup
    {MkResp(k, TRUE, d, f[1], f[2], f[3], f[4]) : k \in {"obj", "map"}, d \in Inners, f \in TopFields} \cup
    {MkResp(k, FALSE, NoInner, f[1], f[2], f[3], f[4]) : k \in {"obj", "map"}, f \in TopFields}

(***************************************************************************)
(* Python built-ins used by the normalizer.                                *)
(***************************************************************************)
\* hasattr(x, name) for name in {"data", "transcript", "language_code"}:
\* only attribute-bearing objects expose them, a dict does not.
hasattr(x, name) ==
    /\ x.kind = "obj"
    /\ CASE name = "data" -> x.hasData
         [] name = "transcript" -> x.hasT
         [] name = "language_code" -> x.hasL

isinstance_dict(x) == x.kind = "map"

\* repr of a field value inside a rendering
Repr(v) == IF IsStr(v) THEN <<"'">> \o v.s \o <<"'">> ELSE v.s

RenderFields(x, open, sep) ==
    (IF x.hasT THEN <<open, "transcript", sep>> \o Repr(x.t) ELSE <<>>) \o
    (IF x.hasL THEN <<open, "language_code", sep>> \o Repr(x.l) ELSE <<>>)

RenderInner(d) ==
    CASE d.kind = "map" -> <<"{">> \o RenderFields(d, "'", "':") \o <<"}">>
      [] d.kind = "obj" -> <<"Data(">> \o RenderFields(d, "", "=") \o <<")">>
      [] OTHER -> <<"<opaque>">>

\* str(response): the string rendering of the whole response value
str(x) ==
    PyStr(CASE x.kind = "map" ->
                 <<"{">> \o (IF x.hasData THEN <<"'", "data", "':">> \o RenderInner(x.data) ELSE <<>>)
                         \o RenderFields(x, "'", "':") \o <<"}">>
            [] x.kind = "obj" ->
                 <<"Response(">> \o (IF x.hasData THEN <<"", "data", "=">> \o RenderInner(x.data) ELSE <<>>)
                         \o RenderFields(x, "", "=") \o <<")">>
            [] OTHER -> <<"<opaque>">>)

\* d.get(key, default) on a dict-shaped value (top level or nested)
dict_get(d, key, default) ==
    CASE key = "transcript" -> IF d.hasT THEN d.t ELSE default
      [] key = "language_code" -> IF d.hasL THEN d.l ELSE default

\* "data = response.get('data', response)" followed by "isinstance(data, dict)"
DataIsDict(response) == IF response.hasData THEN isinstance_dict(response.data) ELSE TRUE

DataOrSelf(response) == IF response.hasData THEN response.data ELSE response

UNKNOWN == PyStr(<<"unknown">>)

(***************************************************************************)
(* Response Normalizer                                                     *)
(***************************************************************************)
\* mutant: the flat shape is probed before the nested one
extract_transcript_FlatFirst(response) ==
    IF hasattr(response, "transcript") THEN response.t
    ELSE IF hasattr(response, "data") /\ hasattr(response.data, "transcript")
    THEN response.data.t
    ELSE IF isinstance_dict(response)
    THEN IF response.hasT THEN response.t
         ELSE IF DataIsDict(response)
              THEN dict_get(DataOrSelf(response), "transcript", str(response))
              ELSE str(response)
    ELSE str(response)

extract_transcript(response) ==
    IF hasattr(response, "data") /\ hasattr(response.data, "transcript")
    THEN response.data.t
    ELSE IF hasattr(response, "transcript")
    THEN response.t
    ELSE IF isinstance_dict(response)
    THEN IF DataIsDict(response)
         THEN dict_get(DataOrSelf(response), "transcript", str(response))
         ELSE dict_get(response, "transcript", str(response))
    ELSE str(response)

\* mutant: the dict shapes are not recognised
extract_language_NoDict(response) ==
    IF hasattr(response, "data") /\ hasattr(response.data, "language_code")
    THEN response.data.l
    ELSE IF hasattr(response, "language_code")
    THEN response.l
    ELSE UNKNOWN

extract_language(response) ==
    IF hasattr(response, "data") /\ hasattr(response.data, "language_code")
    THEN response.data.l
    ELSE IF hasattr(response, "language_code")
    THEN response.l
    ELSE IF isinstance_dict(response)
    THEN IF DataIsDict(response)
         THEN dict_get(DataOrSelf(response), "language_code", UNKNOWN)
         ELSE dict_get(response, "language_code", UNKNOWN)
    ELSE UNKNOWN

(***************************************************************************)
(* Gateway: constants of sarvam-service/main.py                            *)
(***************************************************************************)
allowed_content_types ==
    {"audio/wav", "audio/x-wav", "audio/mpeg", "audio/mp3", "audio/mp4",
     "audio/m4a", "audio/x-m4a", "audio/ogg", "audio/webm", "video/webm"}

\* os.getenv("SARVAM_API_KEY"): absent (None), set to the empty string, or set
Unset == "<unset>"

EnvValues == {Unset, "", "sk-key"}

\* Python truthiness of the value os.getenv returned
Truthy(v) == v # Unset /\ v # ""

ConfigDetail == <<"SARVAM_API_KEY", "is", "not", "configured">>

EmptyDetail == <<"Uploaded", "file", "is", "empty">>

FailurePrefix == <<"Transcription", "failed:">>

\* mutant: the handler drops the text of the exception
HTTPExceptionDetail_NoText(e) == <<"Transcription", "failed">>

\* f"Transcription failed: {str(e)}"
HTTPExceptionDetail(e) == FailurePrefix \o e

\* str(e) of the failures the upstream client may raise
UpstreamErrors == {<<"connection", "reset">>, <<"timed", "out">>}

\* str(e) of the TypeError raised by transcript[:80] on a non-str transcript
TypeErrorText(v) == <<"'" \o v.type \o "'", "object", "is", "not", "subscriptable">>

\* str(e) of the pydantic ValidationError raised by TranscriptionResponse(...)
ValidationErrorText(fld) ==
    <<"1", "validation", "error", "for", "TranscriptionResponse", fld>>

(***************************************************************************)
(* base64.b64encode(content).decode("utf-8"), as a sequence of sextets     *)
(* (0..63), with 64 standing for the padding character '='.                *)
(***************************************************************************)
RECURSIVE b64encode(_)
b64encode(content) ==
    IF Len(content) = 0 THEN <<>>
    ELSE LET n  == Len(content)
             b1 == content[1]
             b2 == IF n >= 2 THEN content[2] ELSE 0
             b3 == IF n >= 3 THEN content[3] ELSE 0
             s1 == b1 \div 4
             s2 == (b1 % 4) * 16 + (b2 \div 16)
             s3 == (b2 % 16) * 4 + (b3 \div 64)
             s4 == b3 % 64
         IN  IF n = 1 THEN <<s1, s2, 64, 64>>
             ELSE IF n = 2 THEN <<s1, s2, s3, 64>>
             ELSE <<s1, s2, s3, s4>> \o b64encode(SubSeq(content, 4, n))

(***************************************************************************)
(* Inputs of a POST /transcribe call                                       *)
(***************************************************************************)
CallIds == {"call1", "call2"}

\* file.content_type: "" stands for an absent (falsy) content type
ContentTypes == {"", "audio/wav", "text/plain"}

Languages == {"unknown", "hi-IN"}

\* the uploaded bytes
Payloads == {<<>>, <<104, 105>>}

NestedMap(t, l) ==
    MkResp("map", TRUE, MkInner("map", TRUE, t, TRUE, l), FALSE, PyNone, FALSE, PyNone)

NestedObj(t, l) ==
    MkResp("obj", TRUE, MkInner("obj", TRUE, t, TRUE, l), FALSE, PyNone, FALSE, PyNone)

\* what ws.recv() may hand back to the gateway
GatewayResponses ==
    {NestedMap(t, l) : t \in StrValues, l \in StrValues} \cup
    {NestedObj(PyStr(AllTexts[1]), PyStr(AllTexts[2])),
     NestedMap(PyNone, PyStr(AllTexts[2])),
     NestedMap(PyStr(AllTexts[1]), PyNone),
     OpaqueResp}

NoBody == [transcript |-> <<>>, language_code |-> <<>>]

IdleCall ==
    [pc |-> "idle", ctype |-> "", language |-> "unknown", content |-> <<>>,
     warned |-> FALSE, audio_b64 |-> <<>>, sent |-> <<>>, connLanguage |-> "",
     conn |-> "none", opens |-> 0, submits |-> 0, recvs |-> 0, norms |-> 0,
     received |-> FALSE, response |-> OpaqueResp,
     failedAt |-> "none", exc |-> <<>>,
     status |-> 0, detail |-> <<>>, body |-> NoBody]

NoHealth == [called |-> FALSE, api_key_configured |-> FALSE, envAtCall |-> Unset]

VARIABLES
    env,             \* the process environment's SARVAM_API_KEY entry, now
    startupEnv,      \* the same entry when the module was imported
    SARVAM_API_KEY,  \* the module-level global
    calls,           \* the POST /transcribe calls, by id
    health,          \* the last GET /health response
    resp, outT, outL, npc   \* normalizer run on its own: input, outputs, position

vars == <<env, startupEnv, SARVAM_API_KEY, calls, health, resp, outT, outL, npc>>

gatewayVars == <<env, startupEnv, SARVAM_API_KEY, calls, health>>

normVars == <<resp, outT, outL, npc>>

(***************************************************************************)
(* State after import of the module                                        *)
(***************************************************************************)
Init ==
    /\ env \in EnvValues
    /\ startupEnv = env
    /\ SARVAM_API_KEY = env
    /\ calls = [c \in CallIds |-> IdleCall]
    /\ health = NoHealth
    /\ resp = OpaqueResp /\ outT = PyNone /\ outL = PyNone /\ npc = "off"

\* the environment entry is added, removed or changed while the service runs
setenv(v) ==
    /\ v # env
    /\ env' = v
    /\ UNCHANGED <<startupEnv, SARVAM_API_KEY, calls, health, normVars>>

\* mutant: the handler reads the environment at call time
HealthKeyConfigured_ReadEnv == Truthy(env)

\* bool(SARVAM_API_KEY)
HealthKeyConfigured == Truthy(SARVAM_API_KEY)

health_check ==
    /\ health' = [called |-> TRUE, api_key_configured |-> HealthKeyConfigured,
                  envAtCall |-> env]
    /\ UNCHANGED <<env, startupEnv, SARVAM_API_KEY, calls, normVars>>

(***************************************************************************)
(* POST /transcribe, one action per stretch of code between two awaits     *)
(***************************************************************************)
Update(c, r) ==
    /\ calls' = [calls EXCEPT ![c] = r]
    /\ UNCHANGED <<env, startupEnv, SARVAM_API_KEY, health, normVars>>

\* mutant: only an absent key counts as missing
KeyMissing_NoneOnly(k) == k = Unset

\* "if not SARVAM_API_KEY"
KeyMissing(k) == ~Truthy(k)

\* mutant: the emptiness check is gone
IsEmpty_Never(content) == FALSE

\* "if not content"
IsEmpty(content) == Len(content) = 0

\* "file.content_type and file.content_type not in allowed_content_types"
UnexpectedContentType(ct) == ct # "" /\ ct \notin allowed_content_types

\* lines 112-123: credential check, advisory content-type check, await file.read()
transcribe_begin(c) ==
    /\ calls[c].pc = "idle"
    /\ \E ct \in ContentTypes, lang \in Languages, data \in Payloads :
         LET r == [calls[c] EXCEPT !.ctype = ct, !.language = lang, !.content = data]
         IN  IF KeyMissing(SARVAM_API_KEY)
             THEN Update(c, [r EXCEPT !.pc = "done", !.status = 500, !.detail = ConfigDetail])
             ELSE Update(c, [r EXCEPT !.pc = "read", !.warned = UnexpectedContentType(ct)])

\* lines 123-128: the payload has been read; empty check; base64
transcribe_read(c) ==
    /\ calls[c].pc = "read"
    /\ IF IsEmpty(calls[c].content)
       THEN Update(c, [calls[c] EXCEPT !.pc = "done", !.status = 400, !.detail = EmptyDetail])
       ELSE Update(c, [calls[c] EXCEPT !.pc = "connect",
                                       !.audio_b64 = b64encode(calls[c].content)])

\* lines 131-137: client construction and entry of the "async with" block
transcribe_connect(c) ==
    /\ calls[c].pc = "connect"
    /\ LET r == [calls[c] EXCEPT !.opens = @ + 1, !.connLanguage = calls[c].language]
       IN  \/ Update(c, [r EXCEPT !.pc = "submit", !.conn = "open"])
           \/ \E e \in UpstreamErrors :
                Update(c, [r EXCEPT !.pc = "except", !.failedAt = "connect", !.exc = e])

\* line 138: await ws.transcribe(audio=audio_b64)
transcribe_submit(c) ==
    /\ calls[c].pc = "submit"
    /\ LET r == [calls[c] EXCEPT !.submits = @ + 1]
       IN  \/ Update(c, [r EXCEPT !.pc = "recv", !.sent = calls[c].audio_b64])
           \/ \E e \in UpstreamErrors :
                Update(c, [r EXCEPT !.pc = "aexit", !.failedAt = "submit", !.exc = e])

\* line 139: response = await ws.recv()
transcribe_recv(c) ==
    /\ calls[c].pc = "recv"
    /\ LET r == [calls[c] EXCEPT !.recvs = @ + 1]
       IN  \/ \E m \in GatewayResponses :
                Update(c, [r EXCEPT !.pc = "aexit", !.received = TRUE, !.response = m])
           \/ \E e \in UpstreamErrors :
                Update(c, [r EXCEPT !.pc = "aexit", !.failedAt = "recv", !.exc = e])

\* mutant: the session is closed on the normal path only
ConnAfterExit_LeakOnError(r) == IF r.failedAt = "none" THEN "closed" ELSE r.conn

\* the connection once the "async with" block has been left
ConnAfterExit(r) == "closed"

\* lines 132-139: leaving the "async with" block, normally or by an exception
transcribe_aexit(c) ==
    /\ calls[c].pc = "aexit"
    /\ Update(c, [calls[c] EXCEPT !.conn = ConnAfterExit(calls[c]),
                                  !.pc = IF calls[c].failedAt = "none" THEN "normalize"
                                         ELSE "except"])

\* lines 141-145, and 147-149 when normalization hands back a non-string
transcribe_return(c) ==
    /\ calls[c].pc = "normalize"
    /\ LET transcript == extract_transcript(calls[c].response)
           detected_language == extract_language(calls[c].response)
           r == [calls[c] EXCEPT !.norms = @ + 1, !.pc = "done"]
       IN  IF ~IsStr(transcript)
           THEN Update(c, [r EXCEPT !.failedAt = "normalize", !.exc = TypeErrorText(transcript),
                                    !.status = 500,
                                    !.detail = HTTPExceptionDetail(TypeErrorText(transcript))])
           ELSE IF ~IsStr(detected_language)
           THEN Update(c, [r EXCEPT !.failedAt = "normalize",
                                    !.exc = ValidationErrorText("language_code"),
                                    !.status = 500,
                                    !.detail = HTTPExceptionDetail(ValidationErrorText("language_code"))])
           ELSE Update(c, [r EXCEPT !.status = 200,
                                    !.body = [transcript |-> transcript.s,
                                              language_code |-> detected_language.s]])

\* mutant: a failed call is tried again
AfterExcept_Retry(r) == [r EXCEPT !.pc = "connect", !.failedAt = "none", !.exc = <<>>]

\* lines 147-149: except Exception as e: raise HTTPException(500, ...)
AfterExcept(r) == [r EXCEPT !.pc = "done", !.status = 500, !.detail = HTTPExceptionDetail(r.exc)]

transcribe_except(c) ==
    /\ calls[c].pc = "except"
    /\ Update(c, AfterExcept(calls[c]))

Next ==
    \/ \E v \in EnvValues : setenv(v)
    \/ health_check
    \/ \E c \in CallIds : transcribe_begin(c)
    \/ \E c \in CallIds : transcribe_read(c)
    \/ \E c \in CallIds : transcribe_connect(c)
    \/ \E c \in CallIds : transcribe_submit(c)
    \/ \E c \in CallIds : transcribe_recv(c)
    \/ \E c \in CallIds : transcribe_aexit(c)
    \/ \E c \in CallIds : transcribe_return(c)
    \/ \E c \in CallIds : transcribe_except(c)

Spec == Init /\ [][Next]_vars

(***************************************************************************)
(* The normalizer on its own: an arbitrary response is normalized          *)
(***************************************************************************)
InitNorm ==
    /\ env = Unset /\ startupEnv = Unset /\ SARVAM_API_KEY = Unset
    /\ calls = [c \in CallIds |-> IdleCall]
    /\ health = NoHealth
    /\ resp \in Responses
    /\ outT = PyNone /\ outL = PyNone /\ npc = "start"

RunExtractTranscript ==
    /\ npc = "start"
    /\ outT' = extract_transcript(resp)
    /\ npc' = "transcript"
    /\ UNCHANGED <<resp, outL, gatewayVars>>

RunExtractLanguage ==
    /\ npc = "transcript"
    /\ outL' = extract_language(resp)
    /\ npc' = "done"
    /\ UNCHANGED <<resp, outT, gatewayVars>>

NextNorm == RunExtractTranscript \/ RunExtractLanguage

SpecNorm == InitNorm /\ [][NextNorm]_vars

(***************************************************************************)
(* Properties                                                              *)
(***************************************************************************)
\* needle occurs in hay as a contiguous run of tokens
Contains(hay, needle) ==
    \E i \in 1..(Len(hay) - Len(needle) + 1) : SubSeq(hay, i, i + Len(needle) - 1) = needle

NoUpstreamUse(r) == r.opens = 0 /\ r.submits = 0 /\ r.recvs = 0 /\ r.conn = "none"

\* exactly {"data": {"transcript": t, "language_code": l}} with strings t and l
IsNestedStrMap(m) ==
    /\ m.kind = "map" /\ m.hasData /\ ~m.hasT /\ ~m.hasL
    /\ m.data.kind = "map"
    /\ m.data.hasT /\ IsStr(m.data.t)
    /\ m.data.hasL /\ IsStr(m.data.l)

\* C1: a call (credential configured, payload non-empty, any content type and
\* language hint) to which the upstream client returned the nested mapping
\* {"data": {"transcript": t, "language_code": l}} with strings t, l ends with
\* status 200 and the body exactly {transcript: t, language_code: l}.
C1_NestedMappingYields200 ==
    \A c \in CallIds :
        (calls[c].pc = "done" /\ calls[c].received /\ IsNestedStrMap(calls[c].response))
        => /\ calls[c].status = 200
           /\ calls[c].body = [transcript |-> calls[c].response.data.t.s,
                               language_code |-> calls[c].response.data.l.s]

C1_Witness ==
    \E c \in CallIds :
        /\ calls[c].pc = "done" /\ calls[c].received
        /\ IsNestedStrMap(calls[c].response)
        /\ calls[c].ctype \notin allowed_content_types /\ calls[c].ctype # ""
        /\ calls[c].warned
        /\ calls[c].language = "hi-IN"
        /\ calls[c].status = 200
        /\ calls[c].body = [transcript |-> <<"hello", "world">>, language_code |-> <<"en-IN">>]

\* C2 as stated: a call with an empty payload, in any credential configuration,
\* ends with status 400 and never opens or invokes the upstream client.
C2_EmptyPayloadAlways400 ==
    \A c \in CallIds :
        (calls[c].pc = "done" /\ calls[c].content = <<>>)
        => (calls[c].status = 400 /\ NoUpstreamUse(calls[c]))

\* C2 amended: a call with an empty payload never opens or invokes the upstream
\* client, whatever the credential configuration; it ends with status 400
\* ("Uploaded file is empty") when the credential is configured, and with the
\* configuration error (status 500) when it is not, as the credential check
\* comes first.
C2_EmptyPayloadRejected ==
    \A c \in CallIds :
        calls[c].content = <<>>
        => /\ NoUpstreamUse(calls[c])
           /\ calls[c].pc = "done" =>
                IF Truthy(SARVAM_API_KEY)
                THEN calls[c].status = 400 /\ calls[c].detail = EmptyDetail
                ELSE calls[c].status = 500 /\ calls[c].detail = ConfigDetail

C2_Witness ==
    \E c \in CallIds :
        /\ calls[c].pc = "done" /\ calls[c].content = <<>>
        /\ Truthy(SARVAM_API_KEY)
        /\ calls[c].status = 400 /\ calls[c].detail = EmptyDetail
        /\ NoUpstreamUse(calls[c])

\* C3: while the credential is missing (the configured key is absent or empty),
\* every call, whatever its payload, ends at once with status 500 and the fixed
\* message, and no upstream connection is opened and no network call attempted.
C3_MissingCredentialFailsFast ==
    ~Truthy(SARVAM_API_KEY)
    => \A c \in CallIds :
          /\ calls[c].pc \in {"idle", "done"}
          /\ NoUpstreamUse(calls[c])
          /\ calls[c].pc = "done" =>
                (calls[c].status = 500 /\ calls[c].detail = ConfigDetail)

C3_Witness ==
    /\ SARVAM_API_KEY = ""
    /\ \E c \in CallIds :
          /\ calls[c].pc = "done" /\ calls[c].content # <<>>
          /\ calls[c].status = 500 /\ calls[c].detail = ConfigDetail
          /\ NoUpstreamUse(calls[c])

\* C4: a validated call in which opening the session, submitting the audio or
\* receiving the response failed ends with status 500 and a detail that
\* contains the text of that failure; it never ends with 200.
C4_UpstreamFailureWrappedAs500 ==
    \A c \in CallIds :
        (calls[c].pc = "done" /\ calls[c].failedAt \in {"connect", "submit", "recv"})
        => /\ calls[c].exc \in UpstreamErrors
           /\ calls[c].status = 500
           /\ Contains(calls[c].detail, calls[c].exc)
           /\ calls[c].body = NoBody

C4_Witness ==
    \E c \in CallIds :
        /\ calls[c].pc = "done" /\ calls[c].failedAt = "recv"
        /\ calls[c].exc = <<"connection", "reset">>
        /\ calls[c].status = 500
        /\ calls[c].detail = <<"Transcription", "failed:", "connection", "reset">>

\* C5: under any interleaving of concurrent calls, once a call has left the
\* session block (and so whenever it has returned a result or an error) the
\* connection it opened has been released, on every exit path.
C5_ConnectionReleasedBeforeReturn ==
    \A c \in CallIds :
        calls[c].pc \in {"normalize", "except", "done"} => calls[c].conn # "open"

C5_Witness ==
    \E c, d \in CallIds :
        /\ c # d
        /\ calls[c].pc = "done" /\ calls[c].failedAt = "submit"
        /\ calls[c].opens = 1 /\ calls[c].conn = "closed"
        /\ calls[d].conn = "open" /\ calls[d].pc = "recv"

\* C9 as stated: api_key_configured returned by GET /health equals whether the
\* credential is present in the environment at the moment of the call.
C9_HealthMatchesEnvironmentAtCall ==
    health.called => (health.api_key_configured = Truthy(health.envAtCall))

\* C9 amended: api_key_configured returned by GET /health equals whether the
\* credential was present (non-empty) in the environment when the module was
\* loaded; it does not follow later changes of the environment.
C9_HealthMatchesEnvironmentAtStartup ==
    health.called => (health.api_key_configured = Truthy(startupEnv))

C9_Witness ==
    /\ health.called
    /\ Truthy(health.envAtCall) # Truthy(startupEnv)
    /\ health.api_key_configured = Truthy(startupEnv)

\* C10: within one call the upstream steps happen in order and at most once:
\* at most one open, a submit only after the open, a receive only after the
\* submit, normalization only after a response was received; a successful call
\* did each exactly once, and a failed call is never retried.
C10_OneOrderedCycle ==
    \A c \in CallIds :
        LET r == calls[c] IN
        /\ r.opens \in {0, 1} /\ r.submits \in {0, 1}
        /\ r.recvs \in {0, 1} /\ r.norms \in {0, 1}
        /\ r.submits <= r.opens
        /\ r.recvs <= r.submits
        /\ r.norms <= r.recvs
        /\ r.received => r.recvs = 1
        /\ r.norms = 1 => r.received
        /\ r.status = 200 => (r.opens = 1 /\ r.submits = 1 /\ r.recvs = 1 /\ r.norms = 1)
        /\ r.submits = 1 /\ r.failedAt # "submit" => r.sent = b64encode(r.content)

C10_Witness ==
    \E c, d \in CallIds :
        /\ c # d
        /\ calls[c].pc = "done" /\ calls[c].status = 200
        /\ calls[c].response.kind = "obj"
        /\ calls[c].opens = 1 /\ calls[c].submits = 1
        /\ calls[c].recvs = 1 /\ calls[c].norms = 1
        /\ calls[d].pc = "done" /\ calls[d].failedAt = "connect"
        /\ calls[d].opens = 1 /\ calls[d].submits = 0

(***************************************************************************)
(* Properties of the normalizer                                            *)
(***************************************************************************)
\* C6: for every response shape and every value the provider may place in the
\* transcript / language_code field, null and non-string values included,
\* extract_transcript and extract_language each return a string.
C6_NormalizerReturnsStrings ==
    /\ npc \in {"transcript", "done"} => IsStr(outT)
    /\ npc = "done" => IsStr(outL)

\* C7: for a mapping whose "data" entry is a mapping without a "transcript"
\* key, extract_transcript returns the top-level "transcript" entry when there
\* is one and the rendering of the whole response only when there is none.
C7_MappingFallsThroughToTopLevel ==
    (/\ npc \in {"transcript", "done"}
     /\ resp.kind = "map" /\ resp.hasData
     /\ resp.data.kind = "map" /\ ~resp.data.hasT)
    => outT = (IF resp.hasT THEN resp.t ELSE str(resp))

\* a nested data.transcript is present: an object whose data attribute exposes
\* a transcript attribute, or a mapping whose "data" entry is a mapping with a
\* "transcript" key
NestedTranscriptPresent(r) ==
    /\ r.kind \in {"obj", "map"}
    /\ r.hasData /\ r.data.kind = r.kind /\ r.data.hasT

=============================================================================
